---- MODULE Spec2Model ----
(***************************************************************************)
(* Goal ingestion pipeline of the StreamBackend repository: the two        *)
(* orchestrators (check_for_new_goals, NHLScraperCron.scrape_date_range /  *)
(* scrape_to_today), the checkpoint kept in S3 (scrape_progress.json) and  *)
(* the publisher (upload_goals_with_collections).                          *)
(***************************************************************************)
EXTENDS Integers, Sequences, FiniteSets, TLC

\* ------------------------------------------------------------------ bounds
\* Calendar days of the model are 1..MaxDay; date.today() is the last one.
MaxDay == 2
\* Number of orchestrator runs that are started in one behaviour.
MaxRuns == 2
\* Number of calls to the event source, the checkpoint store and the feed
\* store that fail in one behaviour.
MaxFaults == 2
\* Number of goal plays in the play-by-play of the game that process_game
\* is applied to.
MaxGoals == 5
\* Largest homeScore / awayScore of an importance context.
MaxScore == 2

Days == 1..MaxDay
Today == MaxDay
\* Run slots: slot 1 is the only one used by sequential runs; slot 2 is the
\* second asyncio task (startup background run next to an endpoint call).
Runs == {1, 2}

\* ------------------------------------------------------- the event source
\* gameState values of the schedule API, in the order a game moves through
\* (OFF, the official final, is handled like FINAL everywhere and left out).
GameStates == <<"FUT", "LIVE", "FINAL">>

\* Schedule of the model: day 1 has two games, every other day has none.
NumGames(d) == IF d = 1 THEN 2 ELSE 0
GamesOn(d) == {d * 10 + k : k \in 1..NumGames(d)}
AllGames == UNION {GamesOn(d) : d \in Days}
DateOfGame(g) == g \div 10

\* Goals in the play-by-play of game g while it is in state st: a game that
\* has started has one goal play (eventId 1), a future game none.
\* Composite goal id f"{game['id']}_{event_id}" is the pair <<game, event>>.
GoalsOfGame(g, st) == IF st = "FUT" THEN <<>> ELSE << <<g, 1>> >>
AllGoals == {<<g, 1>> : g \in AllGames}
\* activity['scoring_team']: the team feed a goal is posted to.
scoring_team(goal) == goal[1]

VARIABLES
    gameState,    \* event source: game id -> gameState
    s3_progress,  \* the blob scrape_progress.json
    collection,   \* downstream 'goals' collection: set of goal ids
    feeds,        \* downstream feeds: set of <<feed id, activity key>>
    runs,         \* run slot -> the run's control state and locals
    nStarted,     \* number of runs started so far
    srcChanged,   \* the event source changed since the latest run started
    faultsLeft,   \* failing calls the environment may still produce
    plays,        \* the goal plays of one game's play-by-play, in order
    processed,    \* what process_game made of plays
    scored        \* an importance context and its calculate_goal_importance

\* The part of the state the orchestrators work on, and the part the
\* classifier and the scorer work on.
pipeVars == <<gameState, s3_progress, collection, feeds, runs, nStarted,
              srcChanged, faultsLeft>>
gameVars == <<plays, processed, scored>>
vars == <<gameState, s3_progress, collection, feeds, runs, nStarted, srcChanged,
          faultsLeft, plays, processed, scored>>

\* ------------------------------------------------------------ s3_storage
\* The default progress structure of load_progress.  The dict has no
\* 'in_progress_dates' key; progress.get('in_progress_dates', []) reads it
\* as empty, so the field is the empty set here.
DefaultProgress ==
    [completed_dates |-> {}, in_progress_dates |-> {}, failed_dates |-> {},
     totalGoals |-> 0]

\* The stored blob: found = FALSE is the 404 answer of S3Storage.read.
NoBlob == [found |-> FALSE, data |-> DefaultProgress]

\* load_progress: the stored data when the read succeeded and returned a
\* blob; the default structure on 404 and on any read error (swallowed).
load_progress(blob, readOk) ==
    IF readOk /\ blob.found THEN blob.data ELSE DefaultProgress

\* save_progress/write: the blob after a write attempt.  A failed write
\* leaves the blob as it was (and raises in the caller).
save_progress_lost(blob, progress, writeOk) == blob
save_progress(blob, progress, writeOk) ==
    IF writeOk THEN [found |-> TRUE, data |-> progress] ELSE blob

\* --------------------------------------------------------------- helpers
RECURSIVE SeqOfRange(_, _)
\* The ascending list of the dates lo..hi (empty when lo > hi).
SeqOfRange(lo, hi) == IF lo > hi THEN <<>> ELSE <<lo>> \o SeqOfRange(lo + 1, hi)

RECURSIVE ConcatGoalsAbort(_, _, _)
\* As ConcatGoals, with the first failing game ending the loop over the
\* games.
ConcatGoalsAbort(gs, fetched, st) ==
    IF gs = {} THEN <<>>
    ELSE LET g == CHOOSE x \in gs : \A y \in gs : x <= y
         IN IF g \in fetched
            THEN GoalsOfGame(g, st[g]) \o ConcatGoalsAbort(gs \ {g}, fetched, st)
            ELSE <<>>

RECURSIVE ConcatGoals(_, _, _)
\* all_goal_data of scrape_nhl_goals: games in schedule order, the goals of
\* every game whose play-by-play fetch succeeded (a failed game adds none).
ConcatGoals(gs, fetched, st) ==
    IF gs = {} THEN <<>>
    ELSE LET g == CHOOSE x \in gs : \A y \in gs : x <= y
         IN (IF g \in fetched THEN GoalsOfGame(g, st[g]) ELSE <<>>)
            \o ConcatGoals(gs \ {g}, fetched, st)

SetMax(S) == CHOOSE x \in S : \A y \in S : y <= x

\* get_recent_dates(days_back): today - days_back .. today, oldest first.
get_recent_dates(days_back) == SeqOfRange(Today - days_back, Today)

\* are_all_games_finished: all_finished of a successful schedule answer.
\* No games scheduled counts as finished.
finished_states == {"FINAL", "OFF"}
total_games(d) == Cardinality(GamesOn(d))
all_finished_some(d, st) ==
    GamesOn(d) # {} /\ \A g \in GamesOn(d) : st[g] \in finished_states
all_finished(d, st) == \A g \in GamesOn(d) : st[g] \in finished_states

\* dates_to_scrape of scrape_date_range: the dates of the range that are
\* neither completed nor failed.
dates_to_scrape(lo, hi, progress) ==
    SelectSeq(SeqOfRange(lo, hi),
              LAMBDA d : d \notin progress.completed_dates
                         /\ d \notin progress.failed_dates)

\* start date of scrape_to_today: the day after the most recent completed
\* date, yesterday when there is none.
stt_start(progress) ==
    IF progress.completed_dates # {}
    THEN SetMax(progress.completed_dates) + 1
    ELSE Today - 1

\* ------------------------------------------------------------- publisher
\* Identity of an activity in a feed: Stream keys an activity by foreign_id
\* and time.  The code sets foreign_id = f"goal:{goal_id}" and time = the
\* game's startTimeUTC; neither depends on when the run happens (stamp).
ActivityKeyStamped(goal, stamp) == <<goal, stamp>>
ActivityKey(goal, stamp) == <<goal, DateOfGame(goal[1])>>

\* The except branch of upload_goals_with_collections counts an exception
\* as failed unless its message contains 'duplicate'.
CountsAsFailedAll(resp) == resp \in {"err", "dup"}
CountsAsFailed(resp) == resp = "err"

\* Answers of the downstream store to one call.
Responses == {"ok", "dup", "err"}

\* --------------------------------------------------- game-winner classifier
\* A goal play of the play-by-play with the fields the code reads:
\* eventId (0 when the play has none: play.get('eventId') is None), owner
\* ("home" when details.eventOwnerTeamId is the home team's id, else "away"),
\* details.homeScore / awayScore (the score after the goal),
\* periodDescriptor.number / periodType, details.strength / goalModifier and
\* timeRemaining (<<minutes, seconds>> of "MM:SS", <<>> when absent).
Teams == {"home", "away"}
Other(team) == IF team = "home" THEN "away" ELSE "home"
None == <<>>

\* goal_id = f"{game['id']}_{play.get('eventId')}": the game is fixed here.
goal_id(play) == <<"game", play.eventId>>

\* Score before the goal as calculate_game_winner derives it.
prev_home_score(play) ==
    IF play.owner = "home" THEN play.homeScore - 1 ELSE play.homeScore
prev_away_score(play) ==
    IF play.owner = "away" THEN play.awayScore - 1 ELSE play.awayScore

\* took_lead: the scoring team was tied or behind before the goal and is
\* ahead after it.
took_lead_any(play) ==
    IF play.owner = "home" THEN play.homeScore > play.awayScore
                           ELSE play.awayScore > play.homeScore
took_lead(play) ==
    IF play.owner = "home"
    THEN prev_home_score(play) <= prev_away_score(play)
         /\ play.homeScore > play.awayScore
    ELSE prev_away_score(play) <= prev_home_score(play)
         /\ play.awayScore > play.homeScore

was_already_ahead(play) ==
    IF play.owner = "home" THEN prev_home_score(play) > prev_away_score(play)
                           ELSE prev_away_score(play) > prev_home_score(play)

\* winning_team: the home team when the last goal's homeScore is larger
\* than its awayScore, the away team otherwise (also when they are equal).
winning_team(goals) ==
    LET details == goals[Len(goals)]
    IN IF details.homeScore > details.awayScore THEN "home" ELSE "away"

RECURSIVE WalkGoalsAllPiling(_, _, _)
\* As WalkGoals, with every goal of the winning team after the first lead
\* change counted as piling on.
WalkGoalsAllPiling(goals, k, winner) ==
    IF k = 0 THEN [last_lead_change_goal |-> None, piling_on_ids |-> {}]
    ELSE LET acc == WalkGoalsAllPiling(goals, k - 1, winner)
             play == goals[k]
             piled == IF acc.last_lead_change_goal # None
                      THEN acc.piling_on_ids \cup {goal_id(play)}
                      ELSE acc.piling_on_ids
         IN IF play.owner # winner THEN acc
            ELSE IF took_lead(play)
            THEN [last_lead_change_goal |-> goal_id(play), piling_on_ids |-> piled]
            ELSE [acc EXCEPT !.piling_on_ids = piled]

RECURSIVE WalkGoals(_, _, _)
\* The loop over the goals: last_lead_change_goal and piling_on_ids after
\* the first k goals.
WalkGoals(goals, k, winner) ==
    IF k = 0 THEN [last_lead_change_goal |-> None, piling_on_ids |-> {}]
    ELSE LET acc == WalkGoals(goals, k - 1, winner)
             play == goals[k]
         IN IF play.owner # winner THEN acc
            ELSE IF took_lead(play)
            THEN [acc EXCEPT !.last_lead_change_goal = goal_id(play)]
            ELSE IF acc.last_lead_change_goal # None /\ was_already_ahead(play)
            THEN [acc EXCEPT !.piling_on_ids = @ \cup {goal_id(play)}]
            ELSE acc

\* calculate_game_winner(goals, game): (game_winner_id, piling_on_ids).
calculate_game_winner(goals) ==
    IF goals = <<>> THEN [game_winner_id |-> None, piling_on_ids |-> {}]
    ELSE LET w == WalkGoals(goals, Len(goals), winning_team(goals))
         IN [game_winner_id |-> w.last_lead_change_goal,
             piling_on_ids |-> w.piling_on_ids]

\* -------------------------------------------------------- importance scorer
\* parse_time of calculate_goal_importance: seconds of "MM:SS", 0 when the
\* string is absent or has no colon.
parse_time(time_str) ==
    IF Len(time_str) < 2 THEN 0 ELSE time_str[1] * 60 + time_str[2]

Abs(n) == IF n < 0 THEN 0 - n ELSE n

\* Late period goals: two stacking bonuses.
late_bonus_single(seconds_remaining) ==
    IF seconds_remaining > 0 /\ seconds_remaining <= 120 THEN 3 ELSE 0
late_bonus(seconds_remaining) ==
    (IF seconds_remaining > 0 /\ seconds_remaining <= 120 THEN 3 ELSE 0)
    + (IF seconds_remaining > 0 /\ seconds_remaining <= 30 THEN 2 ELSE 0)

\* Empty-net goals: one point less, not below 1.
empty_net_adjust_unclamped(score, goal_modifier) ==
    IF goal_modifier = "empty-net" THEN score - 1 ELSE score
empty_net_adjust(score, goal_modifier) ==
    IF goal_modifier = "empty-net"
    THEN (IF score - 1 < 1 THEN 1 ELSE score - 1)
    ELSE score

\* Go-ahead goal: the scoring team was tied or behind and is ahead now.
go_ahead_bonus(context) ==
    LET is_home_goal == context.scoringTeam = context.homeTeam
        scoring_team_score == IF is_home_goal THEN context.homeScore
                                              ELSE context.awayScore
        opponent_score == IF is_home_goal THEN context.awayScore
                                          ELSE context.homeScore
        prev_scoring_team_score ==
            IF is_home_goal THEN context.prevHomeScore ELSE context.prevAwayScore
        prev_opponent_score ==
            IF is_home_goal THEN context.prevAwayScore ELSE context.prevHomeScore
    IN IF prev_scoring_team_score <= prev_opponent_score
          /\ scoring_team_score > opponent_score THEN 6 ELSE 0

\* calculate_goal_importance(context), statement by statement.
calculate_goal_importance(context) ==
    LET is_game_winner == context.isGameWinner
        period == context.period
        period_type == context.periodType
        goal_modifier == context.goalModifier
        strength == context.strength
        home_score == context.homeScore
        away_score == context.awayScore
        is_home_goal == context.scoringTeam = context.homeTeam
        scoring_team_score == IF is_home_goal THEN home_score ELSE away_score
        opponent_score == IF is_home_goal THEN away_score ELSE home_score
        prev_scoring_team_score ==
            IF is_home_goal THEN context.prevHomeScore ELSE context.prevAwayScore
        prev_opponent_score ==
            IF is_home_goal THEN context.prevAwayScore ELSE context.prevHomeScore
        s0 == 1
        s1 == s0 + (IF is_game_winner THEN 10 ELSE 0)
        s2 == s1 + (IF prev_scoring_team_score < prev_opponent_score
                       /\ scoring_team_score = opponent_score THEN 7 ELSE 0)
        s3 == s2 + go_ahead_bonus(context)
        s4 == s3 + (IF period >= 3
                       /\ prev_scoring_team_score - prev_opponent_score = 1
                       /\ scoring_team_score - opponent_score >= 2 THEN 2 ELSE 0)
        s5 == s4 + (IF Abs(scoring_team_score - opponent_score) <= 1 THEN 2 ELSE 0)
        s6 == s5 + late_bonus(parse_time(context.timeRemaining))
        s7 == s6 + (IF period = 3 /\ ~is_game_winner THEN 1 ELSE 0)
        s8 == s7 + (IF period > 3 \/ period_type = "OT" THEN 5 ELSE 0)
        s9 == s8 + (IF period_type = "SO" THEN 3 ELSE 0)
        s10 == s9 + (IF strength = "powerplay" \/ goal_modifier = "power-play"
                     THEN 1 ELSE 0)
        s11 == s10 + (IF strength = "shorthanded" \/ goal_modifier = "short-handed"
                      THEN 4 ELSE 0)
        s12 == s11 + (IF goal_modifier = "penalty-shot" THEN 3 ELSE 0)
        s13 == empty_net_adjust(s12, goal_modifier)
        s14 == s13 + (IF (home_score = 1 /\ away_score = 0)
                         \/ (home_score = 0 /\ away_score = 1) THEN 1 ELSE 0)
    IN s14

\* ------------------------------------------------------------ tag generator
\* A tag f"{kind}:{arg}" is the pair <<kind, arg>>, a tag without argument
\* has kind ""; the matchup tag is the triple of its parts.
Tag(kind, arg) == <<kind, arg>>
TagIf(cond, kind, arg) == IF cond THEN <<Tag(kind, arg)>> ELSE <<>>

\* parse_time of generate_interest_tags (called for a non-empty string).
parse_time_tags(time_str) ==
    IF Len(time_str) < 2 THEN 0 ELSE time_str[1] * 60 + time_str[2]

\* generate_interest_tags: the list of tags in the order of the appends.
\* scoring_player is the player id ("" when the roster has no player),
\* details holds goalModifier and strength, play holds the period number
\* and type.
generate_interest_tags(team, opponent, scoring_player, details, play, is_game_winner, is_piling_on, context) ==
    LET is_home_goal == context.isHomeGoal
        scoring_team_score == IF is_home_goal THEN context.homeScore
                                              ELSE context.awayScore
        opponent_score == IF is_home_goal THEN context.awayScore
                                          ELSE context.homeScore
        prev_scoring_team_score ==
            IF is_home_goal THEN context.prevHomeScore ELSE context.prevAwayScore
        prev_opponent_score ==
            IF is_home_goal THEN context.prevAwayScore ELSE context.prevHomeScore
        goal_type == details.goalModifier
        timed == context.timeRemaining # <<>>
        seconds_remaining == parse_time_tags(context.timeRemaining)
    IN <<Tag("team", team), Tag("opponent", opponent)>>
       \o TagIf(scoring_player # "", "player", scoring_player)
       \o <<Tag("shot", "wrist")>>
       \o TagIf(goal_type # "" /\ goal_type # "even-strength", "goal", goal_type)
       \o TagIf(details.strength = "shorthanded", "", "shorthanded")
       \o TagIf(details.strength = "powerplay", "", "powerplay")
       \o TagIf(is_game_winner, "", "game-winner")
       \o TagIf(is_piling_on, "", "piling-on")
       \o TagIf(play.period > 3, "", "overtime")
       \o TagIf(play.periodType = "SO", "", "shootout")
       \o TagIf(play.periodType = "OT", "", "overtime")
       \o TagIf(goal_type = "empty-net", "", "empty-net")
       \o TagIf(goal_type = "penalty-shot", "", "penalty-shot")
       \o (IF prev_scoring_team_score < prev_opponent_score
              /\ scoring_team_score = opponent_score
           THEN <<Tag("", "tying-goal"), Tag("", "comeback")>> ELSE <<>>)
       \o (IF prev_scoring_team_score <= prev_opponent_score
              /\ scoring_team_score > opponent_score
           THEN <<Tag("", "go-ahead-goal"), Tag("", "comeback")>> ELSE <<>>)
       \o TagIf(Abs(scoring_team_score - opponent_score) <= 1, "", "close-game")
       \o TagIf((context.homeScore = 1 /\ context.awayScore = 0)
                  \/ (context.homeScore = 0 /\ context.awayScore = 1),
                "", "first-goal")
       \o TagIf(timed /\ seconds_remaining <= 120, "", "late-period")
       \o TagIf(timed /\ seconds_remaining <= 30, "", "buzzer-beater")
       \o TagIf(play.period = 3, "", "third-period")
       \o <<Tag("period", ToString(play.period))>>
       \o << <<"matchup", team, opponent>> >>

\* generate_filter_tags: the team's tricode and the player id.
generate_filter_tags(team, scoring_player) ==
    <<team>> \o (IF scoring_player # "" THEN <<scoring_player>> ELSE <<>>)

\* ------------------------------------------------------------ process_game
\* The player the roster has for details.scoringPlayerId.
ScoringPlayer == "8478402"

\* needs_brightcove: some goal play carries neither highlightClip nor
\* discreteClip.
needs_brightcove(goals) == \E k \in 1..Len(goals) : ~goals[k].hasClip

\* Number of calls of fetch_game_brightcove_data (GET .../landing) in
\* process_game.
landing_lookups_per_goal(goals) ==
    Cardinality({k \in 1..Len(goals) : ~goals[k].hasClip})
landing_lookups(goals) == IF needs_brightcove(goals) THEN 1 ELSE 0

\* fetch_game_brightcove_data: the event ids the map has an entry for, all
\* goals with an event id when the landing answer is good, none otherwise.
fetch_game_brightcove_data(goals, landingOk) ==
    IF landingOk
    THEN {goals[k].eventId : k \in 1..Len(goals)} \ {0}
    ELSE {}

\* convert_goal_to_collection_and_activity: where the clips of the goal come
\* from, the classification flags of the activity, its importance score and
\* its tags.  The scores before the goal are derived here a second time:
\* both are lowered for a home goal, neither for an away goal.
convert_goal_to_collection_and_activity(play, game_winner_id, piling_on_ids, game_brightcove_map) ==
    LET media == IF play.hasClip THEN "play"
                 ELSE IF play.eventId \in game_brightcove_map THEN "landing"
                 ELSE "none"
        opponent == Other(play.owner)
        is_game_winner == goal_id(play) = game_winner_id
        is_piling_on == goal_id(play) \in piling_on_ids
        home_score == play.homeScore
        away_score == play.awayScore
        is_home_goal == play.owner = "home"
        prev_home_score_ == IF is_home_goal THEN home_score - 1 ELSE home_score
        prev_away_score_ == IF is_home_goal THEN away_score - 1 ELSE away_score
        importance_context ==
            [isGameWinner |-> is_game_winner,
             period |-> play.period,
             periodType |-> play.periodType,
             goalModifier |-> play.goalModifier,
             strength |-> play.strength,
             timeRemaining |-> play.timeRemaining,
             homeScore |-> home_score,
             awayScore |-> away_score,
             prevHomeScore |-> prev_home_score_,
             prevAwayScore |-> prev_away_score_,
             scoringTeam |-> play.owner,
             homeTeam |-> "home"]
        interest_tags_context ==
            [homeScore |-> home_score,
             awayScore |-> away_score,
             prevHomeScore |-> prev_home_score_,
             prevAwayScore |-> prev_away_score_,
             isHomeGoal |-> is_home_goal,
             timeRemaining |-> play.timeRemaining]
    IN [goalId |-> goal_id(play),
        media |-> media,
        is_game_winner |-> is_game_winner,
        is_piling_on |-> is_piling_on,
        is_go_ahead_goal |->
            \/ is_home_goal /\ prev_home_score_ <= prev_away_score_
                  /\ home_score > away_score
            \/ ~is_home_goal /\ prev_away_score_ <= prev_home_score_
                  /\ away_score > home_score,
        importance_context |-> importance_context,
        interest_tags_context |-> interest_tags_context,
        score |-> calculate_goal_importance(importance_context),
        interest_tags |->
            generate_interest_tags(play.owner, opponent, ScoringPlayer,
                [goalModifier |-> play.goalModifier, strength |-> play.strength],
                [period |-> play.period, periodType |-> play.periodType],
                is_game_winner, is_piling_on, interest_tags_context),
        filter_tags |-> generate_filter_tags(play.owner, ScoringPlayer)]

\* process_game from the goal plays on: the media lookup when it is needed
\* (game_brightcove_map is what it returned), classify the game, convert
\* every goal.  No goal play: the empty list.
process_game(goals, game_brightcove_map) ==
    IF goals = <<>> THEN <<>>
    ELSE LET cls == calculate_game_winner(goals)
         IN [k \in 1..Len(goals) |->
               convert_goal_to_collection_and_activity(
                   goals[k], cls.game_winner_id, cls.piling_on_ids,
                   game_brightcove_map)]

\* processed before process_game has run, scored before a context is scored.
NotProcessed ==
    [done |-> FALSE, game_winner_id |-> None, piling_on_ids |-> {},
     landing_calls |-> 0, game_brightcove_map |-> {}, results |-> <<>>]
NotScored ==
    [importance |-> 0, context |-> <<>>, interest_tags |-> <<>>,
     filter_tags |-> <<>>]

\* ------------------------------------------------------------ run state
\* Control state and locals of one run.  kind is the entry point:
\* "ondemand" = check_for_new_goals, "range" = scrape_date_range,
\* "totoday" = scrape_to_today.  game_errors (the games of the date whose
\* processing failed, which scrape_nhl_goals and process_game only print),
\* skipped (the goals of the batch whose
\* exception was a duplicate, which the code counts nowhere) and the fields
\* after res_failed are history of the run, kept for stating properties.
IdleRun ==
    [pc |-> "idle", kind |-> "none", force_refresh |-> FALSE,
     days_back |-> 0, start_date |-> 0, end_date |-> 0,
     progress |-> DefaultProgress,
     todo |-> <<>>, date |-> 0,
     game_all_finished |-> FALSE, game_errors |-> {},
     goals_data |-> <<>>, i |-> 0, uploaded |-> 0, failed |-> 0, skipped |-> 0,
     res_goals |-> 0, res_uploaded |-> 0, res_failed |-> 0,
     lastExc |-> "none",
     stamp |-> 0, clean |-> TRUE, rerun |-> FALSE, wfail |-> FALSE,
     doneCompleted |-> {}, doneInProgress |-> {}, doneFailed |-> {},
     errored |-> {}]

\* The locals of one loop iteration, dead once the iteration has ended.
EndIteration(run) ==
    [run EXCEPT !.goals_data = <<>>, !.i = 0, !.uploaded = 0, !.failed = 0,
                !.skipped = 0, !.game_errors = {},
                !.game_all_finished = FALSE, !.lastExc = "none"]

Inactive == {"idle", "done", "aborted", "summary_failed", "crashed"}
Active(r) == runs[r].pc \notin Inactive

Init ==
    /\ gameState = [g \in AllGames |-> "FUT"]
    /\ s3_progress = NoBlob
    /\ collection = {}
    /\ feeds = {}
    /\ runs = [r \in Runs |-> IdleRun]
    /\ nStarted = 0
    /\ srcChanged = FALSE
    /\ faultsLeft = MaxFaults
    /\ plays = <<>>
    /\ processed = NotProcessed
    /\ scored = NotScored

\* nf calls of the step fail: the environment has that many failures left.
Faults(nf) == nf <= faultsLeft /\ faultsLeft' = faultsLeft - nf
Bit(b) == IF b THEN 1 ELSE 0

\* The run in slot r goes on as record rec after nf failing calls; nothing
\* else changes.
Step(r, rec, nf) ==
    /\ runs' = [runs EXCEPT ![r] = rec]
    /\ Faults(nf)
    /\ UNCHANGED <<gameState, s3_progress, collection, feeds, nStarted, srcChanged,
                       gameVars>>

\* A run that starts is a re-run when the run before it in the slot
\* returned, used the same entry point and arguments, had every fetch,
\* publish and checkpoint call succeed, and the source is as that run
\* found it.
IsRerun(old, kind, force, days_back, lo, hi) ==
    /\ old.pc = "done" /\ old.clean /\ ~srcChanged
    /\ old.kind = kind /\ old.force_refresh = force
    /\ old.days_back = days_back
    /\ (kind = "totoday" \/ (old.start_date = lo /\ old.end_date = hi))

Begin(r, kind, force, days_back, lo, hi, pc0) ==
    /\ nStarted < MaxRuns
    /\ ~Active(r)
    /\ runs' = [runs EXCEPT ![r] =
                  [IdleRun EXCEPT !.pc = pc0, !.kind = kind,
                                  !.force_refresh = force,
                                  !.days_back = days_back,
                                  !.start_date = lo, !.end_date = hi,
                                  !.stamp = nStarted + 1,
                                  !.rerun = IsRerun(runs[r], kind, force,
                                                    days_back, lo, hi)]]
    /\ nStarted' = nStarted + 1
    /\ srcChanged' = FALSE
    /\ UNCHANGED <<gameState, s3_progress, collection, feeds, faultsLeft,
                 gameVars>>

\* Sequential runs use slot 1 and start when no run is active.
Sequential(r) == r = 1 /\ \A q \in Runs : ~Active(q)

\* check_for_new_goals(days_back, force_refresh) is called.
DaysBackChoices == 1..(MaxDay - 1)
StartOnDemand(r) ==
    /\ Sequential(r)
    /\ \E days_back \in DaysBackChoices, force \in BOOLEAN :
          Begin(r, "ondemand", force, days_back, 0, 0, "load")

\* scrape_date_range(start_date, end_date) is called.
StartRange(r) ==
    /\ Sequential(r)
    /\ \E lo \in Days, hi \in Days :
          lo <= hi /\ Begin(r, "range", FALSE, 0, lo, hi, "load")

\* scrape_to_today() is called.
StartToToday(r) ==
    /\ Sequential(r)
    /\ Begin(r, "totoday", FALSE, 0, 0, 0, "stt_load")

\* scrape_to_today: load the progress, derive the range, call
\* scrape_date_range (which loads the progress again).
SttLoad(r) ==
    /\ runs[r].pc = "stt_load"
    /\ \E readOk \in BOOLEAN :
         LET progress == load_progress(s3_progress, readOk)
         IN Step(r, [runs[r] EXCEPT !.pc = "load",
                        !.start_date = stt_start(progress), !.end_date = Today,
                        !.clean = @ /\ readOk,
                        !.rerun = @ /\ readOk], Bit(~readOk))

\* Both orchestrators: load the progress and build the list of dates.
\* scrape_date_range returns at once when no date is left to scrape.
Load(r) ==
    /\ runs[r].pc = "load"
    /\ \E readOk \in BOOLEAN :
         LET progress == load_progress(s3_progress, readOk)
             todo == IF runs[r].kind = "ondemand"
                     THEN get_recent_dates(runs[r].days_back)
                     ELSE dates_to_scrape(runs[r].start_date, runs[r].end_date,
                                          progress)
         IN Step(r, [runs[r] EXCEPT
                        !.progress = progress,
                        !.todo = todo,
                        !.pc = IF runs[r].kind # "ondemand" /\ todo = <<>>
                               THEN "done" ELSE "loop",
                        !.clean = @ /\ readOk,
                        !.rerun = @ /\ readOk], Bit(~readOk))

\* Head of the for loop over the dates.  check_for_new_goals skips a
\* completed date unless force_refresh; after the last date it returns its
\* results, scrape_date_range goes on to its summary.
NextDate(r) ==
    /\ runs[r].pc = "loop"
    /\ LET run == runs[r]
       IN IF run.todo = <<>>
          THEN Step(r, [run EXCEPT !.date = 0,
                            !.pc = IF run.kind = "ondemand" THEN "done" ELSE "summary"], 0)
          ELSE LET d == Head(run.todo)
                   next == [run EXCEPT !.date = d, !.todo = Tail(run.todo)]
               IN IF run.kind = "ondemand"
                  THEN IF d \in run.progress.completed_dates /\ ~run.force_refresh
                       THEN Step(r, [next EXCEPT !.pc = "loop"], 0)
                       ELSE Step(r, [next EXCEPT !.pc = "status"], 0)
                  ELSE Step(r, [next EXCEPT !.pc = "scrape"], 0)

\* check_for_new_goals: game_status = are_all_games_finished(date_str).
\* An error answer is reported in the details and the loop continues.
CheckStatus(r) ==
    /\ runs[r].pc = "status"
    /\ \E ok \in BOOLEAN :
         IF ok
         THEN Step(r, [runs[r] EXCEPT !.pc = "scrape",
                          !.game_all_finished = all_finished(runs[r].date, gameState)], 0)
         ELSE Step(r, EndIteration([runs[r] EXCEPT !.pc = "loop", !.clean = FALSE,
                          !.errored = @ \cup {runs[r].date}]), 1)

\* scrape_nhl_goals(date_str): one schedule fetch, then process_game for
\* every game of the date; a game whose fetch fails contributes no goal.
\* A failing schedule fetch raises: check_for_new_goals reports the date in
\* its details, scrape_date_range adds the date to failed_dates.
Scrape(r) ==
    /\ runs[r].pc = "scrape"
    /\ LET run == runs[r] d == run.date IN
       \E schedOk \in BOOLEAN, fetched \in SUBSET GamesOn(d) :
         IF ~schedOk
         THEN /\ fetched = {}
              /\ IF run.kind = "ondemand"
                 THEN Step(r, EndIteration([run EXCEPT !.pc = "loop", !.clean = FALSE,
                                  !.errored = @ \cup {d}]), 1)
                 ELSE Step(r, EndIteration([run EXCEPT !.pc = "except_save",
                                  !.clean = FALSE,
                                  !.errored = @ \cup {d},
                                  !.progress.failed_dates = @ \cup {d}]), 1)
         ELSE LET goals == ConcatGoals(GamesOn(d), fetched, gameState)
              IN Step(r, [run EXCEPT
                     !.goals_data = goals,
                     !.game_errors = GamesOn(d) \ fetched,
                     !.i = IF goals = <<>> THEN 0 ELSE 1,
                     !.pc = IF goals = <<>> THEN "update" ELSE "upload",
                     !.res_goals = IF run.kind = "ondemand" THEN @ + Len(goals) ELSE @,
                     !.clean = @ /\ fetched = GamesOn(d)],
                     Cardinality(GamesOn(d) \ fetched))

\* Feed ids: the central feed ('goals', 'nhl') and a team's feed.
NhlFeed == 0
TeamFeed(goal) == scoring_team(goal)

\* upload_goals_with_collections, one goal of the loop: upsert into the
\* collection, add to the team feed, add to the nhl feed; the first call
\* that raises ends the goal.  r1, r2, r3 are the store's answers to the
\* three calls; the store answers "dup" only for an activity it holds.
UploadGoal(r) ==
    /\ runs[r].pc = "upload"
    /\ LET run == runs[r]
           goal == run.goals_data[run.i]
           key == ActivityKey(goal, run.stamp)
       IN \E r1 \in {"ok", "err"}, r2 \in Responses, r3 \in Responses :
            /\ r1 = "err" => r2 = "ok"
            /\ r2 # "ok" => r3 = "ok"
            /\ r2 = "dup" => <<TeamFeed(goal), key>> \in feeds
            /\ r3 = "dup" => <<NhlFeed, key>> \in feeds
            /\ LET exc == IF r1 # "ok" THEN r1 ELSE IF r2 # "ok" THEN r2 ELSE r3
                   uploaded == run.uploaded + (IF exc = "ok" THEN 1 ELSE 0)
                   failed == run.failed + (IF CountsAsFailed(exc) THEN 1 ELSE 0)
                   last == run.i = Len(run.goals_data)
               IN /\ collection' = IF r1 = "ok" THEN collection \cup {goal}
                                                ELSE collection
                  /\ feeds' = feeds
                        \cup (IF r1 = "ok" /\ r2 = "ok"
                              THEN {<<TeamFeed(goal), key>>} ELSE {})
                        \cup (IF exc = "ok" THEN {<<NhlFeed, key>>} ELSE {})
                  /\ runs' = [runs EXCEPT ![r] = [run EXCEPT
                        !.uploaded = uploaded,
                        !.failed = failed,
                        !.skipped = @ + Bit(exc # "ok" /\ ~CountsAsFailed(exc)),
                        !.lastExc = exc,
                        !.clean = @ /\ exc = "ok",
                        !.i = IF last THEN @ ELSE @ + 1,
                        !.pc = IF last THEN "update" ELSE "upload",
                        !.res_goals = IF last /\ run.kind # "ondemand"
                                      THEN @ + Len(run.goals_data) ELSE @,
                        !.res_uploaded = IF last THEN @ + uploaded ELSE @,
                        !.res_failed = IF last /\ run.kind # "ondemand"
                                       THEN @ + failed ELSE @]]
                  /\ Faults(Bit(exc = "err"))
                  /\ UNCHANGED <<gameState, s3_progress, nStarted, srcChanged,
                       gameVars>>

\* Whether the progress update puts the date into completed_dates:
\* check_for_new_goals when game_status['all_finished'], scrape_date_range
\* always.  The counts of the upload are not looked at.
marks_completed_strict(kind, game_all_finished, failed) ==
    (kind # "ondemand" \/ game_all_finished) /\ failed = 0
marks_completed(kind, game_all_finished, failed) ==
    kind # "ondemand" \/ game_all_finished

\* The progress update of one date followed by save_progress.
\* check_for_new_goals: completed when all games are finished, else
\* in progress; a failing save is caught by the per-date except.
\* scrape_date_range: always completed; a failing save enters the except
\* branch, which adds the date to failed_dates and saves again.
UpdateAndSave(r) ==
    /\ runs[r].pc = "update"
    /\ LET run == runs[r] d == run.date
           n == Len(run.goals_data)
           completes == marks_completed(run.kind, run.game_all_finished, run.failed)
           progress ==
             IF run.kind = "ondemand"
             THEN IF completes
                  THEN [run.progress EXCEPT !.completed_dates = @ \cup {d},
                                            !.in_progress_dates = @ \ {d},
                                            !.totalGoals = @ + n]
                  ELSE [run.progress EXCEPT !.in_progress_dates = @ \cup {d},
                                            !.totalGoals = @ + n]
             ELSE [run.progress EXCEPT
                     !.completed_dates = IF completes THEN @ \cup {d} ELSE @,
                     !.totalGoals = @ + n]
       IN \E writeOk \in BOOLEAN :
            /\ s3_progress' = save_progress(s3_progress, progress, writeOk)
            /\ runs' = [runs EXCEPT ![r] = EndIteration(
                 IF writeOk
                 THEN [run EXCEPT !.progress = progress, !.pc = "loop",
                          !.doneCompleted = IF completes THEN @ \cup {d} ELSE @,
                          !.doneInProgress = IF completes THEN @ ELSE @ \cup {d}]
                 ELSE IF run.kind = "ondemand"
                 THEN [run EXCEPT !.progress = progress, !.pc = "loop",
                          !.clean = FALSE, !.wfail = TRUE,
                          !.errored = @ \cup {d}]
                 ELSE [run EXCEPT
                          !.progress = [progress EXCEPT !.failed_dates = @ \cup {d}],
                          !.pc = "except_save",
                          !.clean = FALSE, !.wfail = TRUE,
                          !.errored = @ \cup {d}])]
            /\ Faults(Bit(~writeOk))
            /\ UNCHANGED <<gameState, collection, feeds, nStarted, srcChanged,
                       gameVars>>

\* scrape_date_range, except branch: save_progress after the date went to
\* failed_dates.  This save is outside any try: when it raises, the
\* exception leaves the loop and the run.
ExceptSave(r) ==
    /\ runs[r].pc = "except_save"
    /\ LET run == runs[r] IN
       \E writeOk \in BOOLEAN :
         /\ s3_progress' = save_progress(s3_progress, run.progress, writeOk)
         /\ runs' = [runs EXCEPT ![r] =
              IF writeOk
              THEN [run EXCEPT !.pc = "loop", !.doneFailed = @ \cup {run.date}]
              ELSE [run EXCEPT !.pc = "aborted", !.wfail = TRUE]]
         /\ Faults(Bit(~writeOk))
         /\ UNCHANGED <<gameState, collection, feeds, nStarted, srcChanged,
                       gameVars>>

\* scrape_date_range after the loop: save_summary, then return the summary.
Summary(r) ==
    /\ runs[r].pc = "summary"
    /\ \E writeOk \in BOOLEAN :
         Step(r, [runs[r] EXCEPT !.pc = IF writeOk THEN "done" ELSE "summary_failed",
                                 !.clean = @ /\ writeOk], Bit(~writeOk))

\* The process is interrupted while the run is under way: the locals of the
\* run are gone (the record keeps the history of the run only).
Crash(r) ==
    /\ Active(r)
    /\ Step(r, [IdleRun EXCEPT !.pc = "crashed", !.kind = runs[r].kind,
                    !.clean = FALSE, !.wfail = runs[r].wfail,
                    !.doneCompleted = runs[r].doneCompleted,
                    !.doneInProgress = runs[r].doneInProgress,
                    !.doneFailed = runs[r].doneFailed], 0)

\* The event source: a game moves to its next state; the games of a day
\* start and end in schedule order.  A run observes the source only in its
\* status check and its scrape, so a change that happens during a run is
\* taken right before one of these, and a change no run can observe any
\* more is left out.
NextState(st) == CHOOSE k \in 1..Len(GameStates) : GameStates[k] = st
AdvanceGame(g) ==
    /\ gameState[g] # "FINAL"
    /\ \A h \in GamesOn(DateOfGame(g)) :
          h < g => NextState(gameState[h]) > NextState(gameState[g])
    /\ \/ \E r \in Runs : runs[r].pc \in {"status", "scrape"}
       \/ nStarted < MaxRuns /\ \A r \in Runs : ~Active(r)
    /\ gameState' = [gameState EXCEPT ![g] = GameStates[NextState(gameState[g]) + 1]]
    /\ srcChanged' = TRUE
    /\ UNCHANGED <<s3_progress, collection, feeds, runs, nStarted, faultsLeft,
                 gameVars>>

RunStep(r) ==
    \/ SttLoad(r) \/ Load(r) \/ NextDate(r) \/ CheckStatus(r) \/ Scrape(r)
    \/ UploadGoal(r) \/ UpdateAndSave(r) \/ ExceptSave(r) \/ Summary(r)
    \/ Crash(r)

Next ==
    \/ \E r \in Runs : StartOnDemand(r) \/ StartRange(r) \/ StartToToday(r)
    \/ \E r \in Runs : RunStep(r)
    \/ \E g \in AllGames : AdvanceGame(g)

Spec == Init /\ [][Next]_vars

\* ------------------------------------------------ overlapping runs
\* The startup event schedules check_for_new_goals with
\* asyncio.create_task and the endpoint /scraper/check-for-new-goals awaits
\* it in the request's task: nothing keeps the two from running at once.
\* Each step of a run is the code between two awaits.  In this
\* specification no call fails.
StartOverlapping(r) ==
    \E days_back \in DaysBackChoices, force \in BOOLEAN :
       Begin(r, "ondemand", force, days_back, 0, 0, "load")

InitConc ==
    /\ gameState = [g \in AllGames |-> "FUT"]
    /\ s3_progress = NoBlob
    /\ collection = {}
    /\ feeds = {}
    /\ runs = [r \in Runs |-> IdleRun]
    /\ nStarted = 0
    /\ srcChanged = FALSE
    /\ faultsLeft = 0
    /\ plays = <<>>
    /\ processed = NotProcessed
    /\ scored = NotScored

NextConc ==
    \/ \E r \in Runs : StartOverlapping(r)
    \/ \E r \in Runs : Load(r) \/ NextDate(r) \/ CheckStatus(r) \/ Scrape(r)
                          \/ UploadGoal(r) \/ UpdateAndSave(r)
    \/ \E g \in AllGames : AdvanceGame(g)

SpecConc == InitConc /\ [][NextConc]_vars

\* ------------------------------------------- classifier and scorer alone
\* A play with the fields of an even-strength goal of the first period
\* that carries no clip.
PlainPlay(eventId, owner, homeScore, awayScore) ==
    [eventId |-> eventId, owner |-> owner,
     homeScore |-> homeScore, awayScore |-> awayScore,
     period |-> 1, periodType |-> "REG", strength |-> "even",
     goalModifier |-> "none", timeRemaining |-> <<10, 0>>,
     hasClip |-> FALSE]

\* The game of the scenario: team a leads 1-0, the other team ties 1-1,
\* a retakes the lead 2-1 in the 3rd period with 90 s left and adds an
\* empty-net goal for a 3-1 final.
ScenarioGame(a) ==
    LET h(n, m) == IF a = "home" THEN n ELSE m
        w(n, m) == IF a = "home" THEN m ELSE n
    IN << PlainPlay(1, a, h(1, 0), w(1, 0)),
          [PlainPlay(2, Other(a), h(1, 1), w(1, 1)) EXCEPT !.period = 2],
          [PlainPlay(3, a, h(2, 1), w(2, 1)) EXCEPT
               !.period = 3, !.timeRemaining = <<1, 30>>],
          [PlainPlay(4, a, h(3, 1), w(3, 1)) EXCEPT
               !.period = 3, !.timeRemaining = <<0, 40>>,
               !.goalModifier = "empty-net"] >>

\* Values of the signals of an importance context.
Periods == {1, 3, 4}
PeriodTypes == {"REG", "OT", "SO"}
Strengths == {"even", "powerplay", "shorthanded"}
GoalModifiers == {"none", "power-play", "short-handed", "penalty-shot", "empty-net"}
TimesRemaining == {<<>>, <<0, 0>>, <<0, 20>>, <<1, 30>>, <<10, 0>>}

InitGame ==
    /\ gameState = [g \in AllGames |-> "FUT"]
    /\ s3_progress = NoBlob
    /\ collection = {}
    /\ feeds = {}
    /\ runs = [r \in Runs |-> IdleRun]
    /\ nStarted = 0
    /\ srcChanged = FALSE
    /\ faultsLeft = 0
    /\ plays \in {<<>>, ScenarioGame("home"), ScenarioGame("away")}
    /\ processed = NotProcessed
    /\ scored = NotScored

\* The play-by-play has one more goal play: the scorer's team has one goal
\* more than after the goal before; the play has an eventId of its own or
\* none, and carries a clip or not; clips are attached to the goals in the
\* order of the goals, so a play has one only if the plays before it have.
AddPlay ==
    /\ ~processed.done /\ scored = NotScored
    /\ Len(plays) < MaxGoals
    /\ \E owner \in Teams, hasId \in BOOLEAN, hasClip \in BOOLEAN :
         /\ hasClip => \A k \in 1..Len(plays) : plays[k].hasClip
         /\ LET home == IF plays = <<>> THEN 0 ELSE plays[Len(plays)].homeScore
                away == IF plays = <<>> THEN 0 ELSE plays[Len(plays)].awayScore
            IN plays' = Append(plays,
                   [PlainPlay(IF hasId THEN Len(plays) + 1 ELSE 0, owner,
                              home + Bit(owner = "home"),
                              away + Bit(owner = "away"))
                      EXCEPT !.hasClip = hasClip])
    /\ UNCHANGED <<processed, scored, pipeVars>>

\* process_game is applied to the plays; the landing endpoint answers or
\* fails when it is asked.
ProcessGame ==
    /\ ~processed.done /\ scored = NotScored
    /\ \E landingOk \in BOOLEAN :
         /\ ~needs_brightcove(plays) => landingOk
         /\ LET cls == calculate_game_winner(plays)
                game_brightcove_map ==
                    IF needs_brightcove(plays)
                    THEN fetch_game_brightcove_data(plays, landingOk) ELSE {}
            IN processed' = [done |-> TRUE,
                             game_winner_id |-> cls.game_winner_id,
                             piling_on_ids |-> cls.piling_on_ids,
                             landing_calls |-> landing_lookups(plays),
                             game_brightcove_map |-> game_brightcove_map,
                             results |-> process_game(plays, game_brightcove_map)]
    /\ UNCHANGED <<plays, scored, pipeVars>>

\* calculate_goal_importance and the tag generators are applied to the
\* context of one goal.  The scores before the goal are the scores after
\* it, or one less.
ScoreContext ==
    /\ plays = <<>> /\ ~processed.done /\ scored = NotScored
    /\ \E gw \in BOOLEAN, period \in Periods, periodType \in PeriodTypes,
          strength \in Strengths, goalModifier \in GoalModifiers,
          timeRemaining \in TimesRemaining,
          homeScore \in 0..MaxScore, awayScore \in 0..MaxScore,
          dh \in {0, 1}, da \in {0, 1}, scoringTeam \in Teams,
          is_piling_on \in BOOLEAN, scoring_player \in {"", ScoringPlayer} :
         LET context ==
               [isGameWinner |-> gw, period |-> period,
                periodType |-> periodType, goalModifier |-> goalModifier,
                strength |-> strength, timeRemaining |-> timeRemaining,
                homeScore |-> homeScore, awayScore |-> awayScore,
                prevHomeScore |-> homeScore - dh,
                prevAwayScore |-> awayScore - da,
                scoringTeam |-> scoringTeam, homeTeam |-> "home"]
         IN scored' =
              [importance |-> calculate_goal_importance(context),
               context |-> context,
               interest_tags |->
                   generate_interest_tags(scoringTeam, Other(scoringTeam),
                       scoring_player,
                       [goalModifier |-> goalModifier, strength |-> strength],
                       [period |-> period, periodType |-> periodType],
                       gw, is_piling_on,
                       [homeScore |-> homeScore, awayScore |-> awayScore,
                        prevHomeScore |-> homeScore - dh,
                        prevAwayScore |-> awayScore - da,
                        isHomeGoal |-> scoringTeam = "home",
                        timeRemaining |-> timeRemaining]),
               filter_tags |-> generate_filter_tags(scoringTeam, scoring_player)]
    /\ UNCHANGED <<plays, processed, pipeVars>>

NextGame == AddPlay \/ ProcessGame \/ ScoreContext

SpecGame == InitGame /\ [][NextGame]_vars


\* ------------------------------------------------------------ properties
Persisted == s3_progress.data
AllRunsReturned == \A r \in Runs : runs[r].pc \in {"idle", "done"}

\* C1: after every run of an orchestrator entry point, every date is in at
\* most one of completed_dates, in_progress_dates and failed_dates of the
\* persisted checkpoint.
C1_CheckpointDisjoint ==
    AllRunsReturned =>
        /\ Persisted.completed_dates \cap Persisted.in_progress_dates = {}
        /\ Persisted.completed_dates \cap Persisted.failed_dates = {}
        /\ Persisted.in_progress_dates \cap Persisted.failed_dates = {}

\* C2: a date is in completed_dates only when every game scheduled on it
\* is finished (games never leave a finished state, so a date completed
\* while a game was unfinished shows as a completed date with an
\* unfinished game), for every entry point.
C2_CompletedOnlyWhenFinished ==
    \A d \in Persisted.completed_dates : all_finished(d, gameState)

\* C3: a re-run (same entry point and arguments, after a run in which every
\* call succeeded, source unchanged) adds no record to the goals
\* collection, no entry to any feed, and leaves the persisted
\* completed_dates as they are.
C3_RerunAddsNothing ==
    [][\A r \in Runs :
          (runs[r].rerun /\ ~srcChanged) =>
              /\ collection' = collection
              /\ feeds' = feeds
              /\ Persisted'.completed_dates = Persisted.completed_dates]_vars

\* A re-run of check_for_new_goals has found goals again, published them
\* again and returned.
C3_Witness ==
    \E r \in Runs : /\ runs[r].rerun /\ ~srcChanged
                     /\ runs[r].pc = "done"
                     /\ runs[r].res_goals > 0 /\ runs[r].res_uploaded > 0

\* C4: no step of any run removes a date from the persisted
\* completed_dates, whatever the checkpoint reads and writes answer.
C4_CompletedNeverShrinks ==
    [][Persisted.completed_dates \subseteq Persisted'.completed_dates]_vars

\* C5: a date whose processing ended in an error (status check error,
\* schedule fetch failure, exception in the date's step) is in failed_dates
\* of the run's checkpoint.
C5_ErrorDateGoesToFailed ==
    \A r \in Runs : runs[r].errored \subseteq runs[r].progress.failed_dates

\* C6: no error while processing a date makes the run stop before its
\* later dates: no exception leaves the loop over the dates.
C6_RunNeverAborted ==
    \A r \in Runs : runs[r].pc # "aborted"

\* C7: at every point of a run, interrupted or not, whose checkpoint writes
\* were accepted by the store, the persisted checkpoint holds the outcome
\* of every date the run has finished: only the date in flight is missing.
C7_PersistedAfterEveryDate ==
    \A r \in Runs :
        ~runs[r].wfail =>
            /\ runs[r].doneCompleted \subseteq Persisted.completed_dates
            /\ runs[r].doneInProgress \subseteq Persisted.in_progress_dates
            /\ runs[r].doneFailed \subseteq Persisted.failed_dates

\* A run was interrupted after it had finished at least one date.
C7_Witness ==
    \E r \in Runs :
        /\ runs[r].pc = "crashed" /\ ~runs[r].wfail
        /\ runs[r].doneCompleted \cup runs[r].doneInProgress
              \cup runs[r].doneFailed # {}

\* C8: at most one run is between its load of the checkpoint and its last
\* save.
C8_SingleWriter ==
    Cardinality({r \in Runs : Active(r)}) <= 1

\* The goal the run has published last.
LastPublished(run) ==
    IF run.pc = "update" THEN run.goals_data[Len(run.goals_data)]
                         ELSE run.goals_data[run.i - 1]

\* C9: a goal whose publish ended as uploaded or duplicate-skipped has its
\* record in the goals collection and an entry in its team's feed and in
\* the nhl feed.
C9_PublishedEverywhere ==
    \A r \in Runs :
        runs[r].lastExc \in {"ok", "dup"} =>
            LET goal == LastPublished(runs[r])
                key == ActivityKey(goal, runs[r].stamp)
            IN /\ goal \in collection
               /\ <<TeamFeed(goal), key>> \in feeds
               /\ <<NhlFeed, key>> \in feeds

\* Entries of one goal in one feed.
EntriesOf(f, goal) == {e \in feeds : e[1] = f /\ e[2][1] = goal}

\* C10: a duplicate answer of a feed append leaves the failed count as it
\* is and lets the publish loop go on with the next goal (or end normally
\* after the last one), and no feed ever holds two entries of one goal.
C10_DuplicateIsSuccess ==
    /\ [](\A goal \in AllGoals : \A f \in {NhlFeed, TeamFeed(goal)} :
             Cardinality(EntriesOf(f, goal)) <= 1)
    /\ [][\A r \in Runs :
            (runs[r].pc = "upload" /\ runs'[r].lastExc = "dup"
               /\ runs'[r].pc \in {"upload", "update"}
               /\ runs'[r] # runs[r]) =>
                /\ runs'[r].failed = runs[r].failed
                /\ IF runs[r].i < Len(runs[r].goals_data)
                   THEN runs'[r].pc = "upload" /\ runs'[r].i = runs[r].i + 1
                   ELSE runs'[r].pc = "update"]_vars

\* The store answered duplicate for a goal that is not the last of its
\* batch, on a date that had been published before, and the loop is at the
\* next goal.
C10_Witness ==
    \E r \in Runs : /\ runs[r].pc = "upload" /\ runs[r].lastExc = "dup"
                     /\ runs[r].i = 2 /\ runs[r].failed = 0

\* C11: every publish failure that is not a duplicate adds exactly one to
\* the failed count (and nothing else does), every goal of the batch is
\* attempted, so that after a batch of n goals uploaded + failed +
\* duplicate-skipped = n, and the failed count of the batch is part of the
\* summary the run returns to its caller.
C11_FailuresCountedAndSurfaced ==
    [][\A r \in Runs :
         (runs[r].pc = "upload" /\ runs'[r].pc \in {"upload", "update"}
            /\ runs'[r] # runs[r]) =>
             /\ runs'[r].failed = runs[r].failed + Bit(runs'[r].lastExc = "err")
             /\ runs'[r].pc = "update" =>
                  /\ runs'[r].uploaded + runs'[r].failed + runs'[r].skipped
                        = Len(runs[r].goals_data)
                  /\ runs'[r].res_failed = runs[r].res_failed + runs'[r].failed]_vars

\* The games of the date the run is at are finished: as the status check
\* of check_for_new_goals saw them, as they are for scrape_date_range
\* (which does not look).
DateFinished(run) ==
    IF run.kind = "ondemand" THEN run.game_all_finished
                             ELSE all_finished(run.date, gameState)

\* C12: when the games of a date are finished and some or all of its goals
\* failed to publish, the progress update of the run still puts the date
\* into completed_dates, and the checkpoint write, when the store accepts
\* it, persists that.
C12_PublishFailureDoesNotBlock ==
    [][\A r \in Runs :
         (runs[r].pc = "update" /\ runs[r].failed > 0 /\ DateFinished(runs[r])
            /\ runs'[r].pc = "loop") =>
             /\ runs[r].date \in runs'[r].progress.completed_dates
             /\ faultsLeft' = faultsLeft =>
                   runs[r].date \in Persisted'.completed_dates]_vars

\* The first run, a check_for_new_goals, found goals on day 1 that did not
\* all publish (no duplicate is possible in the first run), and day 1 is
\* completed in the persisted checkpoint.
C12_Witness ==
    \E r \in Runs :
        /\ runs[r].kind = "ondemand" /\ runs[r].stamp = 1
        /\ runs[r].res_goals > runs[r].res_uploaded
        /\ 1 \in runs[r].doneCompleted
        /\ 1 \in Persisted.completed_dates

\* C20: a run whose read of the checkpoint fails ends there with an error:
\* it does not go on to process dates or to write a checkpoint.
C20_UnreadableCheckpointEndsRun ==
    [][\A r \in Runs :
         (runs[r].pc \in {"stt_load", "load"} /\ faultsLeft' < faultsLeft
            /\ runs'[r] # runs[r]) =>
             runs'[r].pc = "aborted"]_vars

\* C13: when the final score of the goal list is tied, calculate_game_winner
\* returns no winner id, whichever team took a lead during the game.
C13_TiedGameHasNoWinner ==
    (processed.done /\ plays # <<>>
       /\ plays[Len(plays)].homeScore = plays[Len(plays)].awayScore) =>
        processed.game_winner_id = None

\* C14: for a score-consistent goal list whose final score is not tied, the
\* winner id is the id of the last goal by which the winning team went from
\* tied or behind to ahead, and from that goal on the winning team is ahead
\* after every goal.  Leads are counted from who scored, not read from the
\* score fields.
C14_WinnerIsLastLeadChange ==
    LET n == Len(plays)
        GoalsBy(team, k) == Cardinality({j \in 1..k : plays[j].owner = team})
        Lead(team, k) == GoalsBy(team, k) - GoalsBy(Other(team), k)
        ScoreConsistent ==
            \A k \in 1..n : /\ plays[k].homeScore = GoalsBy("home", k)
                            /\ plays[k].awayScore = GoalsBy("away", k)
        winner == IF Lead("home", n) > 0 THEN "home" ELSE "away"
        LeadChange(k) == /\ plays[k].owner = winner
                         /\ Lead(winner, k - 1) <= 0
                         /\ Lead(winner, k) > 0
    IN (processed.done /\ n > 0 /\ ScoreConsistent /\ Lead("home", n) # 0) =>
          \E k \in 1..n :
              /\ LeadChange(k)
              /\ \A j \in (k + 1)..n : ~LeadChange(j)
              /\ processed.game_winner_id = goal_id(plays[k])
              /\ \A j \in k..n : Lead(winner, j) > 0

\* A game of five goals was classified: the winner is the third goal, which
\* is neither the first lead of the winning team nor its last goal.
C14_Witness ==
    /\ processed.done /\ Len(plays) = 5
    /\ plays[3].eventId = 3 /\ processed.game_winner_id = goal_id(plays[3])
    /\ plays[1].owner = plays[3].owner /\ plays[5].owner = plays[3].owner
    /\ plays[5].homeScore # plays[5].awayScore

\* C15: when the goal ids of the game are distinct, the winner id is not in
\* the piling-on set, and no converted goal has is_game_winner and
\* is_piling_on both true.
C15_WinnerNeverPilingOn ==
    LET n == Len(plays)
        DistinctIds == \A j \in 1..n, k \in 1..n :
                          j # k => goal_id(plays[j]) # goal_id(plays[k])
    IN (processed.done /\ DistinctIds) =>
          /\ processed.game_winner_id \notin processed.piling_on_ids
          /\ \A k \in 1..Len(processed.results) :
                ~(processed.results[k].is_game_winner
                    /\ processed.results[k].is_piling_on)

\* A game with distinct goal ids was processed in which the winning team
\* took the lead twice and scored again after that: there is a winner and a
\* piling-on goal.
C15_Witness ==
    /\ processed.done /\ Len(plays) >= 4
    /\ \A j \in 1..Len(plays) : plays[j].eventId = j
    /\ processed.game_winner_id = goal_id(plays[3])
    /\ took_lead(plays[1]) /\ plays[1].owner = plays[3].owner
    /\ \E k \in 1..Len(processed.results) : processed.results[k].is_piling_on

\* C16: every goal in the piling-on set was scored after the game-winning
\* goal by the team that scored the game-winning goal; no goal that
\* precedes the game-winning goal is in the piling-on set.
C16_PilingOnAfterWinner ==
    LET n == Len(plays)
        DistinctIds == \A j \in 1..n, k \in 1..n :
                          j # k => goal_id(plays[j]) # goal_id(plays[k])
    IN (processed.done /\ DistinctIds) =>
          \A k \in 1..n :
              goal_id(plays[k]) \in processed.piling_on_ids =>
                  \E j \in 1..(k - 1) :
                      /\ goal_id(plays[j]) = processed.game_winner_id
                      /\ plays[j].owner = plays[k].owner

\* C17: calculate_goal_importance returns an integer that is at least 1,
\* for every context scored directly and for every goal process_game
\* converts.
C17_ImportanceAtLeastOne ==
    /\ scored # NotScored =>
          scored.importance \in Nat /\ scored.importance >= 1
    /\ \A k \in 1..Len(processed.results) :
          processed.results[k].score \in Nat /\ processed.results[k].score >= 1

\* An empty-net goal with no other signal was scored: the subtraction hit
\* the floor.
C17_Witness ==
    /\ scored # NotScored
    /\ scored.context.goalModifier = "empty-net"
    /\ scored.importance = 1

\* C18 as stated: the importance is 1 plus the weights of the signals that
\* match, all of them added up, clamped to at least 1 at the end, with the
\* insurance signal in the 3rd period and the late signals at a known time
\* remaining of at most 120 s and at most 30 s.
C18_ClaimedWeights ==
    scored # NotScored =>
        LET c == scored.context
            home_goal == c.scoringTeam = c.homeTeam
            mine == IF home_goal THEN c.homeScore ELSE c.awayScore
            theirs == IF home_goal THEN c.awayScore ELSE c.homeScore
            prevMine == IF home_goal THEN c.prevHomeScore ELSE c.prevAwayScore
            prevTheirs == IF home_goal THEN c.prevAwayScore ELSE c.prevHomeScore
            known == c.timeRemaining # <<>>
            secs == IF known THEN c.timeRemaining[1] * 60 + c.timeRemaining[2]
                             ELSE 0
            W(signal, weight) == IF signal THEN weight ELSE 0
            sum == 1
                + W(c.isGameWinner, 10)
                + W(prevMine < prevTheirs /\ mine = theirs, 7)
                + W(prevMine <= prevTheirs /\ mine > theirs, 6)
                + W(c.period = 3 /\ prevMine - prevTheirs = 1
                      /\ mine - theirs >= 2, 2)
                + W(Abs(mine - theirs) <= 1, 2)
                + W(known /\ secs <= 120, 3)
                + W(known /\ secs <= 30, 2)
                + W(c.period = 3 /\ ~c.isGameWinner, 1)
                + W(c.period > 3 \/ c.periodType = "OT", 5)
                + W(c.periodType = "SO", 3)
                + W(c.strength = "powerplay" \/ c.goalModifier = "power-play", 1)
                + W(c.strength = "shorthanded" \/ c.goalModifier = "short-handed", 4)
                + W(c.goalModifier = "penalty-shot", 3)
                - W(c.goalModifier = "empty-net", 1)
                + W((c.homeScore = 1 /\ c.awayScore = 0)
                      \/ (c.homeScore = 0 /\ c.awayScore = 1), 1)
        IN scored.importance = IF sum < 1 THEN 1 ELSE sum

\* C18 as amended: the same sum and clamp, with the insurance signal in the
\* 3rd period or any later one and the late signals at a time remaining of
\* more than 0 s and at most 120 s, at most 30 s.
C18_AmendedWeights ==
    scored # NotScored =>
        LET c == scored.context
            home_goal == c.scoringTeam = c.homeTeam
            mine == IF home_goal THEN c.homeScore ELSE c.awayScore
            theirs == IF home_goal THEN c.awayScore ELSE c.homeScore
            prevMine == IF home_goal THEN c.prevHomeScore ELSE c.prevAwayScore
            prevTheirs == IF home_goal THEN c.prevAwayScore ELSE c.prevHomeScore
            known == c.timeRemaining # <<>>
            secs == IF known THEN c.timeRemaining[1] * 60 + c.timeRemaining[2]
                             ELSE 0
            W(signal, weight) == IF signal THEN weight ELSE 0
            sum == 1
                + W(c.isGameWinner, 10)
                + W(prevMine < prevTheirs /\ mine = theirs, 7)
                + W(prevMine <= prevTheirs /\ mine > theirs, 6)
                + W(c.period >= 3 /\ prevMine - prevTheirs = 1
                      /\ mine - theirs >= 2, 2)
                + W(Abs(mine - theirs) <= 1, 2)
                + W(secs > 0 /\ secs <= 120, 3)
                + W(secs > 0 /\ secs <= 30, 2)
                + W(c.period = 3 /\ ~c.isGameWinner, 1)
                + W(c.period > 3 \/ c.periodType = "OT", 5)
                + W(c.periodType = "SO", 3)
                + W(c.strength = "powerplay" \/ c.goalModifier = "power-play", 1)
                + W(c.strength = "shorthanded" \/ c.goalModifier = "short-handed", 4)
                + W(c.goalModifier = "penalty-shot", 3)
                - W(c.goalModifier = "empty-net", 1)
                + W((c.homeScore = 1 /\ c.awayScore = 0)
                      \/ (c.homeScore = 0 /\ c.awayScore = 1), 1)
        IN scored.importance = IF sum < 1 THEN 1 ELSE sum

\* A game-winning overtime goal into the empty net with 20 s left was
\* scored: both late signals, the overtime signal and the empty-net
\* deduction apply together.
C18_Witness ==
    /\ scored # NotScored
    /\ scored.context.isGameWinner /\ scored.context.period = 4
    /\ scored.context.goalModifier = "empty-net"
    /\ scored.context.timeRemaining = <<0, 20>>
    /\ scored.importance >= 20

\* C19: in the scenario game (a leads 1-0, the other team ties, a retakes
\* the lead 2-1 in the 3rd period with 90 s left and adds an empty-net goal,
\* final 3-1) process_game marks the 2-1 goal as game-winner and the last
\* goal as piling-on, and the score of the game-winner's activity is at
\* least 21.
C19_ScenarioGame ==
    \A a \in Teams :
        (processed.done /\ plays = ScenarioGame(a)) =>
            /\ processed.results[3].is_game_winner
            /\ processed.results[4].is_piling_on
            /\ processed.results[3].score >= 21

\* C21: when the processing of a game of the date fails, the date goes on:
\* the scrape of the date returns, the goals of every other game of the
\* date are in its result, and the failure is reported for that game.
C21_GameFailureDoesNotAbortDate ==
    [][\A r \in Runs :
         (runs[r].pc = "scrape" /\ runs'[r].game_errors # {}) =>
             /\ runs'[r].pc \in {"upload", "update"}
             /\ runs'[r].game_errors \subseteq GamesOn(runs[r].date)
             /\ \A g \in GamesOn(runs[r].date) \ runs'[r].game_errors :
                   \A k \in 1..Len(GoalsOfGame(g, gameState[g])) :
                      \E j \in 1..Len(runs'[r].goals_data) :
                         runs'[r].goals_data[j] = GoalsOfGame(g, gameState[g])[k]]_vars

\* The first game of day 1 failed and the goal of the second game is the
\* result of the date.
C21_Witness ==
    \E r \in Runs :
        /\ runs[r].pc = "upload"
        /\ runs[r].game_errors = {11}
        /\ runs[r].goals_data = << <<12, 1>> >>

\* C23: a date without scheduled games has all_finished true with
\* total_games 0, check_for_new_goals sees it so, and the progress update
\* of a run that processes such a date puts it into completed_dates and
\* not into in_progress_dates (persisted so when the store accepts the
\* write).
C23_NoGamesDateCompletes ==
    /\ [](\A d \in Days : total_games(d) = 0 => all_finished(d, gameState))
    /\ [](\A r \in Runs :
            (runs[r].kind = "ondemand" /\ runs[r].pc \in {"scrape", "update"}
               /\ total_games(runs[r].date) = 0) => runs[r].game_all_finished)
    /\ [][\A r \in Runs :
            (runs[r].pc = "update" /\ total_games(runs[r].date) = 0
               /\ runs'[r].pc = "loop") =>
                /\ runs[r].date \in runs'[r].progress.completed_dates
                /\ runs[r].date \notin runs'[r].progress.in_progress_dates
                /\ faultsLeft' = faultsLeft =>
                      /\ runs[r].date \in Persisted'.completed_dates
                      /\ runs[r].date \notin Persisted'.in_progress_dates]_vars

\* A check_for_new_goals run has processed a date without games and the
\* date is completed in the persisted checkpoint.
C23_Witness ==
    \E r \in Runs, d \in Days :
        /\ total_games(d) = 0
        /\ runs[r].kind = "ondemand" /\ d \in runs[r].doneCompleted
        /\ d \in Persisted.completed_dates
        /\ d \notin Persisted.in_progress_dates

\* C24: a date that is in in_progress_dates of the checkpoint a run loads
\* is among the dates the run goes through, for a run triggered with a
\* days_back window and for a catch-up run (scrape_to_today).
C24_InProgressRevisited ==
    [][\A r \in Runs :
         (runs[r].pc = "load" /\ runs[r].kind \in {"ondemand", "totoday"}
            /\ runs'[r].pc \in {"loop", "done"}
            /\ faultsLeft' = faultsLeft) =>
             \A d \in Persisted.in_progress_dates :
                 \E k \in 1..Len(runs'[r].todo) : runs'[r].todo[k] = d]_vars

\* C26: a date is added to completed_dates only when the play-by-play of
\* every game of the date was fetched: the progress update of a date with a
\* failed game does not add the date.
C26_CompletedOnlyWhenFullyFetched ==
    [][\A r \in Runs :
         (runs[r].pc = "update" /\ runs[r].game_errors # {}) =>
             /\ runs[r].date \in runs'[r].progress.completed_dates
                   => runs[r].date \in runs[r].progress.completed_dates
             /\ runs[r].date \in Persisted'.completed_dates
                   => runs[r].date \in Persisted.completed_dates]_vars

\* C28: totalGoals of the persisted checkpoint counts every goal at most
\* once.  The goals found so far are goals the source has, so the counter
\* is at most the number of goals in the play-by-play of all games.
C28_TotalGoalsCountsOnce ==
    LET SourceGoals ==
          UNION {{GoalsOfGame(g, gameState[g])[k] :
                     k \in 1..Len(GoalsOfGame(g, gameState[g]))} : g \in AllGames}
    IN Persisted.totalGoals <= Cardinality(SourceGoals)

\* C22: processing one game issues at most one landing lookup however many
\* goals the game has, and none when every goal carries a clip of its own;
\* every goal without a clip is served from the map of that one lookup.
C22_OneLandingLookupPerGame ==
    processed.done =>
        /\ processed.landing_calls <= 1
        /\ (\A k \in 1..Len(plays) : plays[k].hasClip) =>
              processed.landing_calls = 0
        /\ \A k \in 1..Len(processed.results) :
              /\ plays[k].hasClip => processed.results[k].media = "play"
              /\ ~plays[k].hasClip =>
                    /\ processed.landing_calls = 1
                    /\ processed.results[k].media =
                          IF plays[k].eventId \in processed.game_brightcove_map
                          THEN "landing" ELSE "none"

\* A game of three goals or more, two of them without a clip and both served
\* from the one lookup, another one with a clip of its own.
C22_Witness ==
    /\ processed.done /\ Len(plays) >= 3 /\ processed.landing_calls = 1
    /\ \E j \in 1..Len(plays), k \in 1..Len(plays), m \in 1..Len(plays) :
          /\ j # k
          /\ processed.results[j].media = "landing"
          /\ processed.results[k].media = "landing"
          /\ processed.results[m].media = "play"

\* C25: for every goal, the score before the goal handed to the importance
\* scorer and to the tag generator is the score after the goal with the
\* scoring team's count one lower and the opponent's count unchanged, which
\* is the score before the goal of the game-winner classifier.
C25_PreGoalScoreAgrees ==
    processed.done =>
        \A k \in 1..Len(processed.results) :
            LET r == processed.results[k]
                homeBefore == IF plays[k].owner = "home"
                              THEN plays[k].homeScore - 1 ELSE plays[k].homeScore
                awayBefore == IF plays[k].owner = "away"
                                THEN plays[k].awayScore - 1 ELSE plays[k].awayScore
            IN /\ r.importance_context.prevHomeScore = prev_home_score(plays[k])
               /\ r.importance_context.prevAwayScore = prev_away_score(plays[k])
               /\ r.interest_tags_context.prevHomeScore = prev_home_score(plays[k])
               /\ r.interest_tags_context.prevAwayScore = prev_away_score(plays[k])
               /\ r.importance_context.prevHomeScore = homeBefore
               /\ r.importance_context.prevAwayScore = awayBefore

\* C27: no tag occurs more than once in the interest tags or in the filter
\* tags of an event, whatever the event and its classification.
C27_TagsAreSets ==
    LET NoRepeat(tags) ==
            \A i \in 1..Len(tags), j \in 1..Len(tags) :
                i # j => tags[i] # tags[j]
    IN /\ scored # NotScored =>
            NoRepeat(scored.interest_tags) /\ NoRepeat(scored.filter_tags)
       /\ \A k \in 1..Len(processed.results) :
            /\ NoRepeat(processed.results[k].interest_tags)
            /\ NoRepeat(processed.results[k].filter_tags)

\* C29: every event published with is_game_winner true is a go-ahead goal
\* for the activity field, for the interest tags and for the importance
\* score (the +6 weight).
C29_GameWinnerIsGoAhead ==
    processed.done =>
        \A k \in 1..Len(processed.results) :
            LET r == processed.results[k]
            IN r.is_game_winner =>
                  /\ r.is_go_ahead_goal
                  /\ \E i \in 1..Len(r.interest_tags) :
                        r.interest_tags[i] = Tag("", "go-ahead-goal")
                  /\ go_ahead_bonus(r.importance_context) = 6

\* C30: for every time remaining, 00:00 and a missing one included, an event
\* has the late-period tag exactly when its score holds the +3 weight of at
\* most 120 seconds remaining, and the buzzer-beater tag exactly when its
\* score holds the +2 weight of at most 30 seconds remaining.
C30_LateSignalsAgree ==
    LET Tagged(tags, name) ==
            \E i \in 1..Len(tags) : tags[i] = Tag("", name)
        Agree(tags, time_remaining) ==
            /\ Tagged(tags, "late-period") <=>
                  (late_bonus(parse_time(time_remaining)) >= 3)
            /\ Tagged(tags, "buzzer-beater") <=>
                  (late_bonus(parse_time(time_remaining)) = 5)
    IN /\ scored # NotScored =>
            Agree(scored.interest_tags, scored.context.timeRemaining)
       /\ \A k \in 1..Len(processed.results) :
            Agree(processed.results[k].interest_tags,
                  processed.results[k].importance_context.timeRemaining)

====
